---- MODULE Spec2Model ----
(***************************************************************************)
(* BusPirate_I2C_EEPROM: the command-line scripts Blank_Dump_Creator,      *)
(* BusPirate_I2C_EEPROM_Dump, BusPirate_I2C_EEPROM_Flash and               *)
(* BusPirate_I2C_EEPROM_Wipe as state machines.  One run of one script is  *)
(* one behaviour: the command line is chosen in Init, every statement      *)
(* group of the script is one action, and the file system, the bus and the *)
(* EEPROM behind it are the environment the script acts on.                *)
(***************************************************************************)
EXTENDS Integers, Sequences, FiniteSets, TLC

VARIABLES
    script,           \* which script this run executes
    pc,               \* position in the script
    exc,              \* the exception that ended the run, "none" while running
    printed,          \* the [INFO]/[ERR] result lines printed so far
    args,             \* the parsed command line
    fs,               \* file system: parent directory, output path, input path
    fs0,              \* the file system as the running script found it
    busLog,           \* every call made on the busPirate object, in order
    eeprom,           \* the EEPROM: factory image, size, write transactions
    eepromPtr,        \* the EEPROM's internal address pointer
    stuck,            \* addresses of worn-out cells, which keep their content
    totalBytes,
    byteAddress,
    patternBytes,     \* dumpString (Blank) / wiperString (Wipe)
    wiperStringStart,
    wiperData,        \* the page built by the write loop, Undefined before
    verifyData,       \* the page built by the verify loop, Undefined before
    verifyError,
    fileSize,
    filePos,          \* read position of the open input file (Flash)
    rounds,           \* scripts started so far in this session
    responders,       \* bus addresses that acknowledge a probe (Discovery)
    scanAddress,
    scanProgress,     \* the progress bar's counter
    foundAddresses,
    EEPROM_Addresses,
    unknownAddresses,
    classified        \* elements of foundAddresses the sorting loop has taken

vars == <<script, pc, exc, printed, args, fs, fs0, busLog, eeprom, eepromPtr,
          stuck, totalBytes, byteAddress, patternBytes, wiperStringStart,
          wiperData, verifyData, verifyError, fileSize, filePos, rounds,
          responders, scanAddress, scanProgress, foundAddresses,
          EEPROM_Addresses, unknownAddresses, classified>>

discovery == <<responders, scanAddress, scanProgress, foundAddresses,
               EEPROM_Addresses, unknownAddresses, classified>>

locals == <<totalBytes, byteAddress, patternBytes, wiperStringStart,
            wiperData, verifyData, verifyError, fileSize, filePos>>

memory == <<eeprom, stuck>>

device == <<busLog, memory, eepromPtr>>

-----------------------------------------------------------------------------
(* Program constants *)

MAXIMUM_MEMORY_ADDRESS == 65535

MAXIMUM_I2C_ADDRESS == 127

DEFAULT_I2C_ADDRESS == 80

-----------------------------------------------------------------------------
(* Bounds of the explored command lines *)

MaxBytesPerPage == 5

MaxTotalPages == 3

MaxPatternLen == 3

MaxFileSlack == 2

\* Geometries around the 16-bit limits: 36864 bytes reach past 0x7FFF,
\* 65535 is the largest product the check lets through, 65536 is a full
\* 16-bit address space (addresses 0..0xFFFF), 65664 is beyond it.
LargeGeometries == {<<4096, 9>>, <<65535, 1>>, <<128, 512>>, <<128, 513>>}

Geometries ==
    ((0..MaxBytesPerPage) \X (0..MaxTotalPages)) \cup LargeGeometries

\* The hex digits of "DEADBEEF", repeated; a hex string is a sequence of
\* digit values.
HexDigit(i) == <<13, 14, 10, 13, 11, 14, 14, 15>>[((i - 1) % 8) + 1]

HexStrings == {[i \in 1..n |-> HexDigit(i)] : n \in 0..(2 * MaxPatternLen)}

Addresses == {DEFAULT_I2C_ADDRESS, MAXIMUM_I2C_ADDRESS + 1}

PathKinds == {"absent", "file", "dir", "special"}

Undefined == <<"undefined">>

-----------------------------------------------------------------------------
(* Helpers shared by the scripts *)

Min(a, b) == IF a < b THEN a ELSE b

\* bytes.fromhex: two hex digits per byte; an odd number of digits is a
\* ValueError.
FromHexFails(s) == Len(s) % 2 = 1

FromHex(s) == [i \in 1..(Len(s) \div 2) |-> 16 * s[2 * i - 1] + s[2 * i]]

\* Python slice s[a:b] for 0 <= a, 0 <= b (0-based, end exclusive, clipped).
Slice(s, a, b) ==
    LET hi == Min(b, Len(s))
    IN  IF a >= hi THEN <<>> ELSE SubSeq(s, a + 1, hi)

\* list * n: n copies of s, one after the other.
Repeat(s, n) ==
    LET len == Len(s)
    IN  IF n <= 0 \/ len = 0 THEN <<>>
        ELSE [i \in 1..(len * n) |-> s[((i - 1) % len) + 1]]

-----------------------------------------------------------------------------
(* Byte strings that travel between a file, the bus and the EEPROM.  A byte *)
(* string is a sequence of segments: literal bytes a script computed, a    *)
(* stretch of the input file, or the bytes the EEPROM returned for a       *)
(* sequential read.  ByteAt gives its bytes, so nothing is lost by not     *)
(* copying a 64 KiB file byte by byte through every state.                 *)

Segment(s, v, o, n, b) ==
    [src |-> s, ver |-> v, off |-> o, len |-> n, bytes |-> b]

\* The bytes of a Python list or bytes object.
Lit(b) == IF b = <<>> THEN <<>> ELSE <<Segment("lit", 0, 0, Len(b), b)>>

\* The content of an input file of n bytes: byte i is i % 251, which a
\* blank EEPROM (0xFF everywhere) holds nowhere.
InputByte(i) == i % 251

InputFile(n) == IF n = 0 THEN <<>> ELSE <<Segment("input", 0, 0, n, <<>>)>>

\* The EEPROM's factory content: blank, or a counting pattern that tells
\* every address from its neighbours and from the address 0x8000 below it.
ImageByte(img, a) == IF img = "blank" THEN 255 ELSE a % 251

RECURSIVE ByteLen(_, _)
ByteLen(r, k) == IF k > Len(r) THEN 0 ELSE r[k].len + ByteLen(r, k + 1)

\* len(data)
Length(r) == ByteLen(r, 1)

\* The index of the last of n bytes, written from pointer p into pages of
\* pageSize bytes, to land on address a; -1 if none does.  The pointer's
\* low part rolls over inside the page that p lies in.
LastWrite(p, n, pageSize, a) ==
    LET first == ((a % pageSize) - (p % pageSize)) % pageSize
    IN  IF (a - (a % pageSize)) # (p - (p % pageSize)) \/ first > n - 1
        THEN -1
        ELSE first + (((n - 1 - first) \div pageSize) * pageSize)

RECURSIVE ByteOf(_, _, _)
RECURSIVE MemByte(_, _)

\* The EEPROM content at address a after its first v write transactions:
\* worn-out cells keep their factory content.
MemByte(v, a) ==
    IF v = 0 \/ a \in stuck THEN ImageByte(eeprom.img, a)
    ELSE LET w == eeprom.writes[v]
             j == LastWrite(w.at, w.len, w.pageSize, a)
         IN  IF j < 0 THEN MemByte(v - 1, a) ELSE ByteOf(w.data, 1, j + 1)

\* Byte i (from 1) of byte string r, counted from its k-th segment.
ByteOf(r, k, i) ==
    IF i > r[k].len THEN ByteOf(r, k + 1, i - r[k].len)
    ELSE IF r[k].src = "lit" THEN r[k].bytes[i]
    ELSE IF r[k].src = "input" THEN InputByte(r[k].off + i - 1)
    ELSE MemByte(r[k].ver, (r[k].off + i - 1) % eeprom.size)

ByteAt(r, i) == ByteOf(r, 1, i)

\* The byte string as one Python bytes object.
Bytes(r) == [i \in 1..Length(r) |-> ByteAt(r, i)]

\* file.read(n) at position a: bytes a .. b-1 of r, counted from segment k.
RECURSIVE Read(_, _, _, _)
Read(r, k, a, b) ==
    IF k > Len(r) \/ b <= 0 THEN <<>>
    ELSE LET s  == r[k]
             lo == IF a < 0 THEN 0 ELSE a
             hi == Min(b, s.len)
             rest == Read(r, k + 1, a - s.len, b - s.len)
         IN  IF lo >= hi THEN rest
             ELSE <<Segment(s.src, s.ver,
                            IF s.src = "lit" THEN 0 ELSE s.off + lo, hi - lo,
                            IF s.src = "lit" THEN SubSeq(s.bytes, lo + 1, hi)
                            ELSE <<>>)>> \o rest

\* (address << 1) | 1 and (address << 1) & 0b11111110
READ_ADDRESS(address) == (2 * address) + 1

WRITE_ADDRESS(address) == (2 * address) % 256

\* An exception that is noted while the script carries on where it is.
RaiseAndCarryOn(e) == pc' = pc /\ exc' = e

Raise(e) == pc' = "exit" /\ exc' = e

Goto(p) == pc' = p /\ exc' = exc

-----------------------------------------------------------------------------
(* The file system, as pathlib and open() see it *)

ParentExists == fs.parent = "dir"

OutputExists == fs.parent = "dir" /\ fs.outKind # "absent"

OutputIsFile == fs.parent = "dir" /\ fs.outKind = "file"

OutputIsDir == fs.parent = "dir" /\ fs.outKind = "dir"

\* args.outputFile.parent.mkdir(parents=True)
Mkdir(f) == [f EXCEPT !.parent = "dir", !.mkdirs = @ + 1]

\* open(args.outputFile, "wb"): creates the file or truncates it; a special
\* file (a device, a FIFO) is opened and keeps no content.
OpenWb(f) ==
    [f EXCEPT !.opens = @ + 1,
              !.outKind = IF @ = "absent" THEN "file" ELSE @,
              !.outData = <<>>]

\* dumpFile.write(data)
FileWrite(f, data) ==
    IF f.outKind = "file" THEN [f EXCEPT !.outData = @ \o data] ELSE f

\* The parent directory check of Blank_Dump_Creator and Dump.
CheckParent(next) ==
    IF ~ParentExists /\ ~args.force
    THEN Raise("SystemExit") /\ UNCHANGED fs
    ELSE /\ Goto(next)
         /\ fs' = IF ~ParentExists /\ args.force THEN Mkdir(fs) ELSE fs

\* The output file check without the refusal of an existing file.
CheckOutputAlwaysOverwrites(next) ==
    IF OutputExists /\ OutputIsDir
    THEN Raise("SystemExit")
    ELSE Goto(next)

\* The output file check of Blank_Dump_Creator and Dump.
CheckOutput(next) ==
    IF OutputExists /\ OutputIsFile /\ ~args.force
    THEN Raise("SystemExit")
    ELSE IF OutputIsFile /\ args.force
    THEN Goto(next)
    ELSE IF OutputExists /\ OutputIsDir
    THEN Raise("SystemExit")
    ELSE Goto(next)

\* totalBytes = bytesPerPage * totalPages, refused above the maximum.
CheckGeometry(next) ==
    /\ totalBytes' = args.bytesPerPage * args.totalPages
    /\ IF totalBytes' > MAXIMUM_MEMORY_ADDRESS
       THEN Raise("ValueError")
       ELSE Goto(next)

-----------------------------------------------------------------------------
(* The Bus Pirate and the EEPROM behind it *)

BusOp(o, d, n) == [op |-> o, data |-> d, numrx |-> n]

\* busPirate = I2C(); busPirate.speed = ...; configure(power = True, ...);
\* busPirate.start()
BusSetupOps ==
    <<BusOp("I2C", <<>>, 0), BusOp("speed", <<>>, 0),
      BusOp("power_on", <<>>, 0), BusOp("start", <<>>, 0)>>

DeviceSize == eeprom.size

\* The 16-bit memory address carried by the two address bytes, as the
\* device decodes it.
DeviceAddress(hi, lo) == ((hi * 256) + lo) % DeviceSize

\* A sequential read of n bytes from pointer p, of the content the EEPROM
\* has at this moment.
DeviceRead(p, n) ==
    IF n <= 0 THEN <<>>
    ELSE <<Segment("eeprom", Len(eeprom.writes), p, n, <<>>)>>

\* A page write of data at pointer p; the pointer it leaves behind.
DeviceWrite(mem, p, data, pageSize) ==
    [mem EXCEPT !.writes =
        Append(@, [at |-> p, data |-> data, len |-> Length(data),
                   pageSize |-> pageSize])]

PageSlot(p, j, pageSize) == (p - (p % pageSize)) + ((p + j) % pageSize)

\* Whether a bus transfer is acknowledged: the library raises otherwise.
BusOutcomes == {"ok", "ProtocolError"}

-----------------------------------------------------------------------------
(* Blank_Dump_Creator.py *)

BlankCheckGeometry ==
    /\ script = "Blank" /\ pc = "geometry"
    /\ CheckGeometry("hex")
    /\ UNCHANGED <<script, discovery, fs0,
                   printed, args, fs, device, byteAddress,
                   patternBytes, wiperStringStart, wiperData, verifyData,
                   verifyError,
                   fileSize, filePos, rounds>>

BlankParseHex ==
    /\ script = "Blank" /\ pc = "hex"
    /\ IF FromHexFails(args.hexString)
       THEN Raise("ValueError") /\ UNCHANGED patternBytes
       ELSE Goto("parent") /\ patternBytes' = FromHex(args.hexString)
    /\ UNCHANGED <<script, discovery, fs0,
                   printed, args, fs, device, totalBytes, byteAddress,
                   wiperStringStart, wiperData, verifyData,
                   verifyError, fileSize,
                   filePos, rounds>>

BlankCheckParent ==
    /\ script = "Blank" /\ pc = "parent"
    /\ CheckParent("output")
    /\ UNCHANGED <<script, discovery, fs0,
                   printed, args, device, locals, rounds>>

BlankCheckOutput ==
    /\ script = "Blank" /\ pc = "output"
    /\ CheckOutput("open")
    /\ UNCHANGED <<script, discovery, fs0,
                   printed, args, fs, device, locals, rounds>>

BlankOpen ==
    /\ script = "Blank" /\ pc = "open"
    /\ fs' = OpenWb(fs)
    /\ byteAddress' = 0
    /\ Goto("loop")
    /\ UNCHANGED <<script, discovery, fs0,
                   printed, args, device, totalBytes, patternBytes,
                   wiperStringStart, wiperData, verifyData,
                   verifyError, fileSize,
                   filePos, rounds>>

\* The write size without the cap at the bytes that remain.
BlankBytesToWriteUncapped == Len(patternBytes)

BlankBytesToWrite == Min(Len(patternBytes), totalBytes - byteAddress)

\* One iteration of the write loop.
BlankWrite ==
    /\ script = "Blank" /\ pc = "loop"
    /\ byteAddress < totalBytes
    /\ fs' = FileWrite(fs, Lit(Slice(patternBytes, 0, BlankBytesToWrite)))
    /\ byteAddress' = byteAddress + BlankBytesToWrite
    /\ UNCHANGED <<script, discovery, fs0,
                   pc, exc, printed, args, device, totalBytes,
                   patternBytes, wiperStringStart, wiperData, verifyData,
                   verifyError,
                   fileSize, filePos, rounds>>

BlankFinish ==
    /\ script = "Blank" /\ pc = "loop"
    /\ ~(byteAddress < totalBytes)
    /\ printed' = Append(printed, "File written")
    /\ Goto("done")
    /\ UNCHANGED <<script, discovery, fs0,
                   args, fs, device, locals, rounds>>

-----------------------------------------------------------------------------
(* BusPirate_I2C_EEPROM_Dump.py *)

CheckAddress(next) ==
    IF args.address > MAXIMUM_I2C_ADDRESS
    THEN Raise("ValueError")
    ELSE Goto(next)

DumpCheckAddress ==
    /\ script = "Dump" /\ pc = "address"
    /\ CheckAddress("geometry")
    /\ UNCHANGED <<script, discovery, fs0,
                   printed, args, fs, device, locals, rounds>>

DumpCheckGeometry ==
    /\ script = "Dump" /\ pc = "geometry"
    /\ CheckGeometry("parent")
    /\ UNCHANGED <<script, discovery, fs0,
                   printed, args, fs, device, byteAddress,
                   patternBytes, wiperStringStart, wiperData, verifyData,
                   verifyError,
                   fileSize, filePos, rounds>>

DumpCheckParent ==
    /\ script = "Dump" /\ pc = "parent"
    /\ CheckParent("output")
    /\ UNCHANGED <<script, discovery, fs0,
                   printed, args, device, locals, rounds>>

DumpCheckOutput ==
    /\ script = "Dump" /\ pc = "output"
    /\ CheckOutput("bus")
    /\ UNCHANGED <<script, discovery, fs0,
                   printed, args, fs, device, locals, rounds>>

DumpBusSetup ==
    /\ script = "Dump" /\ pc = "bus"
    /\ busLog' = busLog \o BusSetupOps
    /\ Goto("open")
    /\ UNCHANGED <<script, discovery, fs0,
                   printed, args, fs, memory, eepromPtr, locals,
                   rounds>>

DumpOpen ==
    /\ script = "Dump" /\ pc = "open"
    /\ fs' = OpenWb(fs)
    /\ byteAddress' = 0
    /\ Goto("loop")
    /\ UNCHANGED <<script, discovery, fs0,
                   printed, args, device, totalBytes, patternBytes,
                   wiperStringStart, wiperData, verifyData,
                   verifyError, fileSize,
                   filePos, rounds>>

\* (byteAddress >> 8) & 0x7F and byteAddress & 0xFF
DumpAddressHigh(b) == (b \div 256) % 128

AddressLow(b) == b % 256

DumpSetAddress ==
    <<WRITE_ADDRESS(args.address), DumpAddressHigh(byteAddress),
      AddressLow(byteAddress)>>

DumpRxCount == Min(args.bytesPerPage, totalBytes - byteAddress)

\* One iteration of the read loop: set the address, read rxCount bytes,
\* append them to the file.  Either transfer may raise.
DumpRead ==
    /\ script = "Dump" /\ pc = "loop"
    /\ byteAddress < totalBytes
    /\ \E o1 \in BusOutcomes, o2 \in BusOutcomes :
        LET setOp  == BusOp("transfer", Lit(DumpSetAddress), 0)
            readOp == BusOp("write_then_read",
                            Lit(<<READ_ADDRESS(args.address)>>), DumpRxCount)
            ptr    == DeviceAddress(DumpSetAddress[2], DumpSetAddress[3])
        IN  IF o1 # "ok"
            THEN /\ busLog' = Append(busLog, setOp)
                 /\ Raise(o1)
                 /\ UNCHANGED <<fs, eepromPtr, byteAddress>>
            ELSE IF o2 # "ok"
            THEN /\ busLog' = busLog \o <<setOp, readOp>>
                 /\ eepromPtr' = ptr
                 /\ Raise(o2)
                 /\ UNCHANGED <<fs, byteAddress>>
            ELSE /\ busLog' = busLog \o <<setOp, readOp>>
                 /\ eepromPtr' = (ptr + DumpRxCount) % DeviceSize
                 /\ fs' = FileWrite(fs, DeviceRead(ptr, DumpRxCount))
                 /\ byteAddress' = byteAddress + DumpRxCount
                 /\ UNCHANGED <<pc, exc>>
    /\ UNCHANGED <<script, discovery, fs0,
                   printed, args, memory, totalBytes, patternBytes,
                   wiperStringStart, wiperData, verifyData,
                   verifyError, fileSize,
                   filePos, rounds>>

DumpFinish ==
    /\ script = "Dump" /\ pc = "loop"
    /\ ~(byteAddress < totalBytes)
    /\ busLog' = busLog \o <<BusOp("stop", <<>>, 0),
                              BusOp("power_off", <<>>, 0)>>
    /\ printed' = Append(printed, "File written")
    /\ Goto("done")
    /\ UNCHANGED <<script, discovery, fs0,
                   args, fs, memory, eepromPtr, locals, rounds>>

NextDump ==
    \/ DumpCheckAddress
    \/ DumpCheckGeometry
    \/ DumpCheckParent
    \/ DumpCheckOutput
    \/ DumpBusSetup
    \/ DumpOpen
    \/ DumpRead
    \/ DumpFinish

-----------------------------------------------------------------------------
(* BusPirate_I2C_EEPROM_Flash.py *)

InputExists == fs.inKind # "absent"

\* An input path that merely exists.
InputIsFileLoose == fs.inKind # "absent"

InputIsFile == fs.inKind = "file"

FlashCheckAddress ==
    /\ script = "Flash" /\ pc = "address"
    /\ CheckAddress("geometry")
    /\ UNCHANGED <<script, discovery, fs0,
                   printed, args, fs, device, locals, rounds>>

FlashCheckGeometry ==
    /\ script = "Flash" /\ pc = "geometry"
    /\ CheckGeometry("input")
    /\ UNCHANGED <<script, discovery, fs0,
                   printed, args, fs, device, byteAddress,
                   patternBytes, wiperStringStart, wiperData, verifyData,
                   verifyError, fileSize, filePos, rounds>>

\* The input file must exist and be a regular file.
FlashCheckInput ==
    /\ script = "Flash" /\ pc = "input"
    /\ IF ~InputExists
       THEN Raise("SystemExit")
       ELSE IF InputExists /\ ~InputIsFile
       THEN Raise("SystemExit")
       ELSE Goto("size")
    /\ UNCHANGED <<script, discovery, fs0,
                   printed, args, fs, device, locals, rounds>>

\* fileSize = args.inputFile.stat().st_size, refused above totalBytes.
FlashCheckSize ==
    /\ script = "Flash" /\ pc = "size"
    /\ fileSize' = Length(fs.inData)
    /\ IF fileSize' > totalBytes
       THEN Raise("IndexError")
       ELSE Goto("bus")
    /\ UNCHANGED <<script, discovery, fs0,
                   printed, args, fs, device, totalBytes, byteAddress,
                   patternBytes, wiperStringStart, wiperData, verifyData,
                   verifyError, filePos, rounds>>

FlashBusSetup ==
    /\ script = "Flash" /\ pc = "bus"
    /\ busLog' = busLog \o BusSetupOps
    /\ Goto("open")
    /\ UNCHANGED <<script, discovery, fs0,
                   printed, args, fs, memory, eepromPtr, locals,
                   rounds>>

\* open(args.inputFile, "rb"); byteAddress = 0; dumpFile.seek(byteAddress)
FlashOpen ==
    /\ script = "Flash" /\ pc = "open"
    /\ byteAddress' = 0
    /\ filePos' = 0
    /\ Goto("loop")
    /\ UNCHANGED <<script, discovery, fs0,
                   printed, args, fs, device, totalBytes, patternBytes,
                   wiperStringStart, wiperData, verifyData, verifyError,
                   fileSize, rounds>>

\* The high address byte cut to seven bits.
AddressHighSevenBits(b) == (b \div 256) % 128

\* (byteAddress >> 8) & 0xFF
AddressHigh(b) == (b \div 256) % 256

\* The rest of the file in one transaction, whatever the page size.
FlashTxCountWholeFile == fileSize - byteAddress

FlashTxCount == Min(args.bytesPerPage, fileSize - byteAddress)

\* dumpFile.read(txCount)
FlashFileData == Read(fs.inData, 1, filePos, filePos + FlashTxCount)

FlashAddressBytes ==
    <<WRITE_ADDRESS(args.address), AddressHigh(byteAddress),
      AddressLow(byteAddress)>>

FlashTxData == Lit(FlashAddressBytes) \o FlashFileData

\* One iteration of the write loop: read a page from the file and send it
\* in one write transaction, which may raise.
FlashWrite ==
    /\ script = "Flash" /\ pc = "loop"
    /\ byteAddress < fileSize
    /\ \E o \in BusOutcomes :
        LET ptr == DeviceAddress(FlashAddressBytes[2], FlashAddressBytes[3])
        IN  /\ busLog' =
                  Append(busLog, BusOp("write_then_read", FlashTxData, 0))
            /\ filePos' = filePos + Length(FlashFileData)
            /\ IF o # "ok"
               THEN /\ Raise(o)
                    /\ UNCHANGED <<eeprom, eepromPtr, byteAddress>>
               ELSE /\ eeprom' = DeviceWrite(eeprom, ptr, FlashFileData,
                                             args.bytesPerPage)
                    /\ eepromPtr' = PageSlot(ptr, Length(FlashFileData),
                                             args.bytesPerPage)
                    /\ byteAddress' = byteAddress + FlashTxCount
                    /\ UNCHANGED <<pc, exc>>
    /\ UNCHANGED <<script, discovery, fs0,
                   printed, args, fs, stuck, totalBytes, patternBytes,
                   wiperStringStart, wiperData, verifyData, verifyError,
                   fileSize, rounds>>

FlashFinish ==
    /\ script = "Flash" /\ pc = "loop"
    /\ ~(byteAddress < fileSize)
    /\ busLog' = busLog \o <<BusOp("stop", <<>>, 0),
                              BusOp("power_off", <<>>, 0)>>
    /\ printed' = Append(printed, "File flashed")
    /\ Goto("done")
    /\ UNCHANGED <<script, discovery, fs0,
                   args, fs, memory, eepromPtr, locals, rounds>>

NextFlash ==
    \/ FlashCheckAddress
    \/ FlashCheckGeometry
    \/ FlashCheckInput
    \/ FlashCheckSize
    \/ FlashBusSetup
    \/ FlashOpen
    \/ FlashWrite
    \/ FlashFinish

\* After a completed Flash the user runs Dump on the same EEPROM with the
\* same address, bytesPerPage and totalPages.
DumpAfterFlash ==
    /\ script = "Flash" /\ pc = "done" /\ rounds = 1
    /\ script' = "Dump"
    /\ pc' = "address"
    /\ rounds' = rounds + 1
    /\ exc' = "none"
    /\ printed' = <<>>
    /\ busLog' = <<>>
    /\ totalBytes' = 0
    /\ byteAddress' = 0
    /\ fileSize' = 0
    /\ filePos' = 0
    /\ fs0' = fs
    /\ UNCHANGED <<args, fs, memory, eepromPtr, patternBytes, discovery,
                   wiperStringStart, wiperData, verifyData, verifyError>>

-----------------------------------------------------------------------------
(* BusPirate_I2C_EEPROM_Wipe.py *)

WipeCheckAddress ==
    /\ script = "Wipe" /\ pc = "address"
    /\ CheckAddress("geometry")
    /\ UNCHANGED <<script, discovery, fs0,
                   printed, args, fs, device, locals, rounds>>

WipeCheckGeometry ==
    /\ script = "Wipe" /\ pc = "geometry"
    /\ CheckGeometry("hex")
    /\ UNCHANGED <<script, discovery, fs0,
                   printed, args, fs, device, byteAddress,
                   patternBytes, wiperStringStart, wiperData, verifyData,
                   verifyError, fileSize, filePos, rounds>>

\* wiperString = bytes.fromhex(args.hexString)
WipeParseHex ==
    /\ script = "Wipe" /\ pc = "hex"
    /\ IF FromHexFails(args.hexString)
       THEN Raise("ValueError") /\ UNCHANGED patternBytes
       ELSE Goto("bus") /\ patternBytes' = FromHex(args.hexString)
    /\ UNCHANGED <<script, discovery, fs0,
                   printed, args, fs, device, totalBytes, byteAddress,
                   wiperStringStart, wiperData, verifyData, verifyError,
                   fileSize, filePos, rounds>>

\* Bus setup, the first start, byteAddress = 0, wiperStringStart = 0.
WipeBusSetup ==
    /\ script = "Wipe" /\ pc = "bus"
    /\ busLog' = busLog \o BusSetupOps
    /\ byteAddress' = 0
    /\ wiperStringStart' = 0
    /\ Goto("loop")
    /\ UNCHANGED <<script, discovery, fs0,
                   printed, args, fs, memory, eepromPtr, totalBytes,
                   patternBytes, wiperData, verifyData, verifyError, fileSize,
                   filePos, rounds>>

wiperStringBytes == Len(patternBytes)

\* wiperString[start:] + wiperString[:start]
Rotated(start) ==
    Slice(patternBytes, start, wiperStringBytes) \o Slice(patternBytes, 0, start)

\* The page of n > wiperStringBytes bytes: the complete wiper strings, then
\* the partial one.
FilledPage(start, n) ==
    LET partialWiperStringBytes == n % wiperStringBytes
        completeWiperStrings ==
            (n - partialWiperStringBytes) \div wiperStringBytes
        wiperStringEnd == start + partialWiperStringBytes
    IN  Repeat(Rotated(start), completeWiperStrings) \o
        (IF wiperStringEnd > wiperStringBytes
         THEN Slice(patternBytes, start, wiperStringBytes) \o
              Slice(patternBytes, 0, wiperStringEnd - wiperStringBytes)
         ELSE Slice(patternBytes, start, wiperStringEnd))

\* while wiperStringStart > wiperStringBytes: wiperStringStart -= ...
RECURSIVE KeepInRange(_)
KeepInRange(start) ==
    IF start > wiperStringBytes
    THEN KeepInRange(start - wiperStringBytes)
    ELSE start

\* The tracker advanced without being brought back into the string.
NextStartUnbounded(start, n) == start + (n % wiperStringBytes)

NextStart(start, n) == KeepInRange(start + (n % wiperStringBytes))

\* The if/else that loads the page of n bytes, in either loop: the new
\* page, the new wiperStringStart, or the exception it raises.  prev is the
\* page variable before the statement: the else branch extends it with +=
\* before assigning it.
BuildPage(prev, start, n) ==
    IF n > wiperStringBytes
    THEN IF wiperStringBytes = 0
         THEN [exc |-> "ZeroDivisionError", data |-> prev, start |-> start]
         ELSE [exc |-> "none", data |-> FilledPage(start, n),
               start |-> NextStart(start, n)]
    ELSE IF prev = Undefined
         THEN [exc |-> "NameError", data |-> prev, start |-> start]
         ELSE [exc |-> "none", data |-> Slice(patternBytes, 0, n),
               start |-> start]

WipeBytesToWrite == Min(args.bytesPerPage, totalBytes - byteAddress)

WipeAddressBytes ==
    <<WRITE_ADDRESS(args.address), AddressHigh(byteAddress),
      AddressLow(byteAddress)>>

\* One iteration of the write loop.
WipeWrite ==
    /\ script = "Wipe" /\ pc = "loop"
    /\ byteAddress < totalBytes
    /\ LET page == BuildPage(wiperData, wiperStringStart, WipeBytesToWrite)
           ptr  == DeviceAddress(WipeAddressBytes[2], WipeAddressBytes[3])
       IN  IF page.exc # "none"
           THEN /\ Raise(page.exc)
                /\ UNCHANGED <<busLog, eeprom, eepromPtr, byteAddress,
                               wiperData, wiperStringStart>>
           ELSE /\ wiperData' = page.data
                /\ wiperStringStart' = page.start
                /\ busLog' = Append(busLog,
                       BusOp("write_then_read",
                             Lit(WipeAddressBytes \o page.data), 0))
                /\ \E o \in BusOutcomes :
                     IF o # "ok"
                     THEN /\ Raise(o)
                          /\ UNCHANGED <<eeprom, eepromPtr, byteAddress>>
                     ELSE /\ eeprom' = DeviceWrite(eeprom, ptr, Lit(page.data),
                                                   args.bytesPerPage)
                          /\ eepromPtr' = PageSlot(ptr, Len(page.data),
                                                   args.bytesPerPage)
                          /\ byteAddress' = byteAddress + WipeBytesToWrite
                          /\ UNCHANGED <<pc, exc>>
    /\ UNCHANGED <<script, discovery, fs0,
                   printed, args, fs, stuck, totalBytes, patternBytes,
                   verifyData, verifyError, fileSize, filePos, rounds>>

\* The step after the write loop without the tracker's reset.
WipeWriteDoneKeepsTracker ==
    /\ script = "Wipe" /\ pc = "loop"
    /\ ~(byteAddress < totalBytes)
    /\ busLog' = busLog \o <<BusOp("stop", <<>>, 0), BusOp("start", <<>>, 0)>>
    /\ verifyError' = FALSE
    /\ byteAddress' = 0
    /\ Goto("verify")
    /\ UNCHANGED <<script, discovery, fs0, printed, args, fs, memory,
                   eepromPtr, totalBytes, patternBytes, wiperData, verifyData,
                   wiperStringStart, fileSize, filePos, rounds>>

\* After the write loop: stop, start, and the verify loop's initial values.
WipeWriteDone ==
    /\ script = "Wipe" /\ pc = "loop"
    /\ ~(byteAddress < totalBytes)
    /\ busLog' = busLog \o <<BusOp("stop", <<>>, 0), BusOp("start", <<>>, 0)>>
    /\ verifyError' = FALSE
    /\ byteAddress' = 0
    /\ wiperStringStart' = 0
    /\ Goto("verify")
    /\ UNCHANGED <<script, discovery, fs0,
                   printed, args, fs, memory, eepromPtr, totalBytes,
                   patternBytes, wiperData, verifyData, fileSize, filePos,
                   rounds>>

\* A comparison that only looks at the lengths.
VerifyMismatchLengthOnly(expected, rxData) == Len(expected) # Len(rxData)

\* bytes(verifyData) != rxData
VerifyMismatch(expected, rxData) == expected # rxData

\* A verify loop that is never entered.
VerifyPendingNever == FALSE

\* while (byteAddress < totalBytes) of the verify loop
VerifyPending == byteAddress < totalBytes

\* One iteration of the verify loop: build the expected page, set the
\* address, read the page back, compare.
WipeVerify ==
    /\ script = "Wipe" /\ pc = "verify"
    /\ VerifyPending
    /\ LET page   == BuildPage(verifyData, wiperStringStart, WipeBytesToWrite)
           setOp  == BusOp("transfer", Lit(WipeAddressBytes), 0)
           readOp == BusOp("write_then_read",
                           Lit(<<READ_ADDRESS(args.address)>>),
                           WipeBytesToWrite)
           ptr    == DeviceAddress(WipeAddressBytes[2], WipeAddressBytes[3])
           rxData == Bytes(DeviceRead(ptr, WipeBytesToWrite))
       IN  IF page.exc # "none"
           THEN /\ Raise(page.exc)
                /\ UNCHANGED <<busLog, eepromPtr, byteAddress, verifyData,
                               wiperStringStart, verifyError>>
           ELSE /\ verifyData' = page.data
                /\ wiperStringStart' = page.start
                /\ \E o1 \in BusOutcomes, o2 \in BusOutcomes :
                     IF o1 # "ok"
                     THEN /\ busLog' = Append(busLog, setOp)
                          /\ Raise(o1)
                          /\ UNCHANGED <<eepromPtr, byteAddress, verifyError>>
                     ELSE IF o2 # "ok"
                     THEN /\ busLog' = busLog \o <<setOp, readOp>>
                          /\ eepromPtr' = ptr
                          /\ Raise(o2)
                          /\ UNCHANGED <<byteAddress, verifyError>>
                     ELSE /\ busLog' = busLog \o <<setOp, readOp>>
                          /\ eepromPtr' = (ptr + WipeBytesToWrite) % DeviceSize
                          /\ IF VerifyMismatch(page.data, rxData)
                             THEN /\ verifyError' = TRUE
                                  /\ Goto("finish")
                                  /\ UNCHANGED byteAddress
                             ELSE /\ byteAddress' = byteAddress + WipeBytesToWrite
                                  /\ UNCHANGED <<pc, exc, verifyError>>
    /\ UNCHANGED <<script, discovery, fs0,
                   printed, args, fs, memory, totalBytes, patternBytes,
                   wiperData, fileSize, filePos, rounds>>

\* After the verify loop, or its break: stop, hw_reset, the verdict.
WipeFinish ==
    /\ script = "Wipe"
    /\ \/ pc = "finish"
       \/ pc = "verify" /\ ~VerifyPending
    /\ busLog' = busLog \o <<BusOp("stop", <<>>, 0),
                              BusOp("hw_reset", <<>>, 0)>>
    /\ printed' = Append(printed, IF verifyError THEN "Verification failed"
                                  ELSE "EEPROM wiped successfully")
    /\ Goto("done")
    /\ UNCHANGED <<script, discovery, fs0,
                   args, fs, memory, eepromPtr, locals, rounds>>

NextWipe ==
    \/ WipeCheckAddress
    \/ WipeCheckGeometry
    \/ WipeParseHex
    \/ WipeBusSetup
    \/ WipeWrite
    \/ WipeWriteDone
    \/ WipeVerify
    \/ WipeFinish

NextBlank ==
    \/ BlankCheckGeometry
    \/ BlankParseHex
    \/ BlankCheckParent
    \/ BlankCheckOutput
    \/ BlankOpen
    \/ BlankWrite
    \/ BlankFinish

-----------------------------------------------------------------------------
(* BusPirate_I2C_EEPROM_Discovery.py *)

\* MAXIMUM_I2C_ADDRESS of the Discovery script: the scan's last address.
SCAN_MAXIMUM_I2C_ADDRESS == 255

\* busPirate = I2C(); busPirate.speed = ...; configure(power = True, ...)
DiscoveryBusSetup ==
    /\ script = "Discovery" /\ pc = "bus"
    /\ busLog' = busLog \o <<BusOp("I2C", <<>>, 0), BusOp("speed", <<>>, 0),
                              BusOp("power_on", <<>>, 0)>>
    /\ Goto(IF args.search THEN "search" ELSE "memory")
    /\ UNCHANGED <<script, fs0, printed, args, fs, memory, eepromPtr, locals,
                   rounds, discovery>>

\* foundAddresses = []; busPirate.start(); the first value of the range.
DiscoveryScanStart ==
    /\ script = "Discovery" /\ pc = "search"
    /\ foundAddresses' = <<>>
    /\ busLog' = Append(busLog, BusOp("start", <<>>, 0))
    /\ scanAddress' = 1
    /\ Goto("scan")
    /\ UNCHANGED <<script, fs0, printed, args, fs, memory, eepromPtr, locals,
                   rounds, responders, scanProgress, EEPROM_Addresses,
                   unknownAddresses, classified>>

\* A probe that takes every address as found, acknowledged or not.
FoundAfterProbeAlways(found, address, outcome) == Append(found, address)

\* try: write_then_read; foundAddresses += [scanAddress]
\* except ProtocolError: (nothing but a verbose message)
FoundAfterProbe(found, address, outcome) ==
    IF outcome = "ok" THEN Append(found, address) ELSE found

\* What the bus answers to a probe of an address.
ProbeOutcome(address) ==
    IF address \in responders THEN "ok" ELSE "ProtocolError"

\* One iteration of the scan: for scanAddress in range(1, MAXIMUM + 1).
DiscoveryProbe ==
    /\ script = "Discovery" /\ pc = "scan"
    /\ scanAddress <= SCAN_MAXIMUM_I2C_ADDRESS
    /\ busLog' = Append(busLog,
                        BusOp("write_then_read", Lit(<<scanAddress>>), 1))
    /\ foundAddresses' = FoundAfterProbe(foundAddresses, scanAddress,
                                         ProbeOutcome(scanAddress))
    /\ scanProgress' = scanProgress + 1
    /\ scanAddress' = scanAddress + 1
    /\ UNCHANGED <<script, fs0, pc, exc, printed, args, fs, memory, eepromPtr,
                   locals, rounds, responders, EEPROM_Addresses,
                   unknownAddresses, classified>>

\* After the scan: stop, the message, the two empty lists.
DiscoveryScanDone ==
    /\ script = "Discovery" /\ pc = "scan"
    /\ ~(scanAddress <= SCAN_MAXIMUM_I2C_ADDRESS)
    /\ busLog' = Append(busLog, BusOp("stop", <<>>, 0))
    /\ printed' = Append(printed, "Address scanning complete")
    /\ EEPROM_Addresses' = <<>>
    /\ unknownAddresses' = <<>>
    /\ classified' = 0
    /\ Goto("sort")
    /\ UNCHANGED <<script, fs0, args, fs, memory, eepromPtr, locals, rounds,
                   responders, scanAddress, scanProgress, foundAddresses>>

\* (address >> 1) & 0b01111111
I2C_Address(address) == (address \div 2) % 128

\* [I2C_Address, readAddress, writeAddress]
Row(address) ==
    <<I2C_Address(address), READ_ADDRESS(I2C_Address(address)),
      WRITE_ADDRESS(I2C_Address(address))>>

\* x in list
In(x, list) == \E i \in 1..Len(list) : list[i] = x

\* A row is stored whether or not it has been stored before.
RowsAfterAlwaysStored(rows, address) == Append(rows, Row(address))

\* if [...] not in EEPROM_Addresses: EEPROM_Addresses += [[...]]
RowsAfter(rows, address) ==
    IF ~In(Row(address), rows) THEN Append(rows, Row(address)) ELSE rows

\* One iteration of the sorting loop: for address in foundAddresses.
DiscoverySort ==
    /\ script = "Discovery" /\ pc = "sort"
    /\ classified < Len(foundAddresses)
    /\ LET address == foundAddresses[classified + 1]
       IN  IF /\ In(Row(address)[2], foundAddresses)
              /\ In(Row(address)[3], foundAddresses)
           THEN /\ EEPROM_Addresses' = RowsAfter(EEPROM_Addresses, address)
                /\ UNCHANGED unknownAddresses
           ELSE /\ unknownAddresses' = Append(unknownAddresses, address)
                /\ UNCHANGED EEPROM_Addresses
    /\ classified' = classified + 1
    /\ UNCHANGED <<script, fs0, pc, exc, printed, args, fs, device, locals,
                   rounds, responders, scanAddress, scanProgress,
                   foundAddresses>>

\* After the sorting loop: the table of EEPROMs or the warning, then the
\* table of single addresses.
DiscoveryReport ==
    /\ script = "Discovery" /\ pc = "sort"
    /\ ~(classified < Len(foundAddresses))
    /\ printed' = printed \o
           <<IF Len(EEPROM_Addresses) # 0 THEN "Found valid Addresses"
             ELSE "No EEPROM addresses were found">> \o
           (IF Len(unknownAddresses) # 0
            THEN <<"Devices with only a single address were found">>
            ELSE <<>>)
    /\ Goto("memory")
    /\ UNCHANGED <<script, fs0, args, fs, device, locals, rounds, discovery>>

\* if args.memoryLayout: one of three messages; then busPirate.hw_reset().
DiscoveryFinish ==
    /\ script = "Discovery" /\ pc = "memory"
    /\ printed' = printed \o
           (IF ~args.memoryLayout THEN <<>>
            ELSE IF args.address = "None" /\ ~args.search
            THEN <<"No EEPROM address was supplied">>
            ELSE IF args.search /\ Len(EEPROM_Addresses) = 0
            THEN <<"Search enabled but no addresses were found">>
            ELSE <<"Function not implemented">>)
    /\ busLog' = Append(busLog, BusOp("hw_reset", <<>>, 0))
    /\ Goto("done")
    /\ UNCHANGED <<script, fs0, args, fs, memory, eepromPtr, locals, rounds,
                   discovery>>

NextDiscovery ==
    \/ DiscoveryBusSetup
    \/ DiscoveryScanStart
    \/ DiscoveryProbe
    \/ DiscoveryScanDone
    \/ DiscoverySort
    \/ DiscoveryReport
    \/ DiscoveryFinish

-----------------------------------------------------------------------------
(* Initial states: a command line and the world it is run in *)

FileSystems ==
    {[parent |-> p, outKind |-> k, outData |-> d, inKind |-> "absent",
      inData |-> <<>>, mkdirs |-> 0, opens |-> 0] :
        p \in {"dir", "absent"}, k \in PathKinds, d \in {<<>>, Lit(<<85>>)}}

OutputWorlds ==
    {f \in FileSystems :
        /\ f.parent = "absent" => f.outKind = "absent"
        /\ (f.outData # <<>>) <=> (f.outKind = "file")}

InitCommon ==
    /\ exc = "none"
    /\ printed = <<>>
    /\ busLog = <<>>
    /\ eepromPtr = 0
    /\ totalBytes = 0
    /\ byteAddress = 0
    /\ patternBytes = <<>>
    /\ wiperStringStart = 0
    /\ wiperData = Undefined
    /\ verifyData = Undefined
    /\ verifyError = FALSE
    /\ fileSize = 0
    /\ filePos = 0
    /\ rounds = 1
    /\ scanAddress = 0
    /\ scanProgress = 0
    /\ foundAddresses = Undefined
    /\ EEPROM_Addresses = Undefined
    /\ unknownAddresses = Undefined
    /\ classified = 0

\* The EEPROM the datasheet values describe, with its factory content.
Images == {"blank", "count"}

Device(g, img) ==
    [img |-> img,
     size |-> IF g[1] * g[2] > MAXIMUM_MEMORY_ADDRESS THEN 0 ELSE g[1] * g[2],
     writes |-> <<>>]

NoDevice == [img |-> "blank", size |-> 0, writes |-> <<>>]

\* Blank_Dump_Creator writes len(pattern) bytes per iteration: it is run on
\* the small geometries and on the refused ones.
BlankGeometries ==
    {g \in Geometries :
        g \in LargeGeometries => g[1] * g[2] > MAXIMUM_MEMORY_ADDRESS}

\* The accepted large geometries are run in one world: a fresh output file,
\* no --force, the default address, the counting image.
Heavy(g) == g \in LargeGeometries /\ g[1] * g[2] <= MAXIMUM_MEMORY_ADDRESS

PlainWorld(f) == f.parent = "dir" /\ f.outKind = "absent"

InitBlank ==
    /\ InitCommon
    /\ responders = {}
    /\ script = "Blank"
    /\ pc = "geometry"
    /\ \E g \in BlankGeometries, h \in HexStrings, f \in BOOLEAN :
          /\ args = [address |-> DEFAULT_I2C_ADDRESS, bytesPerPage |-> g[1],
                     totalPages |-> g[2], hexString |-> h, force |-> f]
    /\ fs \in OutputWorlds
    /\ fs0 = fs
    /\ eeprom = NoDevice
    /\ stuck = {}

InitDump ==
    /\ InitCommon
    /\ responders = {}
    /\ script = "Dump"
    /\ pc = "address"
    /\ fs \in OutputWorlds
    /\ fs0 = fs
    /\ \E g \in Geometries, a \in Addresses, f \in BOOLEAN, img \in Images :
          /\ Heavy(g) =>
                ~f /\ PlainWorld(fs) /\ a = DEFAULT_I2C_ADDRESS /\ img = "count"
          /\ args = [address |-> a, bytesPerPage |-> g[1],
                     totalPages |-> g[2], hexString |-> <<>>, force |-> f]
          /\ eeprom = Device(g, img)
    /\ stuck = {}

FileSizes(g) ==
    IF Heavy(g) THEN {g[1] * g[2]}
    ELSE IF g \in LargeGeometries THEN {0}
    ELSE 0..((g[1] * g[2]) + MaxFileSlack)

InitFlash ==
    /\ InitCommon
    /\ responders = {}
    /\ script = "Flash"
    /\ pc = "address"
    /\ \E g \in Geometries, a \in Addresses, k \in PathKinds :
          /\ Heavy(g) => a = DEFAULT_I2C_ADDRESS /\ k = "file"
          /\ args = [address |-> a, bytesPerPage |-> g[1],
                     totalPages |-> g[2], hexString |-> <<>>, force |-> FALSE]
          /\ eeprom = Device(g, "blank")
          /\ \E n \in FileSizes(g) :
                /\ k # "file" => n = 0
                /\ fs = [parent |-> "dir", outKind |-> "absent",
                         outData |-> <<>>, inKind |-> k,
                         inData |-> InputFile(n), mkdirs |-> 0, opens |-> 0]
    /\ fs0 = fs
    /\ stuck = {}

SpecFlash == InitFlash /\ [][NextFlash \/ DumpAfterFlash \/ NextDump]_vars

\* The cells that may be worn out: none, or one cell of a small EEPROM.
StuckChoices(g) ==
    IF g \in LargeGeometries THEN {{}}
    ELSE {{}} \cup {{x} : x \in 0..((g[1] * g[2]) - 1)}

InitWipe ==
    /\ InitCommon
    /\ responders = {}
    /\ script = "Wipe"
    /\ pc = "address"
    /\ \E g \in Geometries, a \in Addresses, h \in HexStrings :
          /\ Heavy(g) => a = DEFAULT_I2C_ADDRESS /\ Len(h) = 2 * MaxPatternLen
          /\ args = [address |-> a, bytesPerPage |-> g[1],
                     totalPages |-> g[2], hexString |-> h, force |-> FALSE]
          /\ eeprom = Device(g, "blank")
          /\ stuck \in StuckChoices(g)
    /\ fs = [parent |-> "dir", outKind |-> "absent", outData |-> <<>>,
             inKind |-> "absent", inData |-> <<>>, mkdirs |-> 0, opens |-> 0]
    /\ fs0 = fs

\* The devices on the bus: any choice among the general call address, its
\* odd partner 1, the write and read address of I2C address 1, the write
\* address of I2C address 80 alone and the last address of the scan.
Candidates == {0, 1, 2, 3, 160, 255}

InitDiscovery ==
    /\ InitCommon
    /\ script = "Discovery"
    /\ pc = "bus"
    /\ \E s \in BOOLEAN, m \in BOOLEAN, a \in {"None", "80"} :
          args = [search |-> s, memoryLayout |-> m, address |-> a]
    /\ responders \in SUBSET Candidates
    /\ ~args.search => responders = {}
    /\ args.search => args.address = "None"
    /\ fs = [parent |-> "dir", outKind |-> "absent", outData |-> <<>>,
             inKind |-> "absent", inData |-> <<>>, mkdirs |-> 0, opens |-> 0]
    /\ fs0 = fs
    /\ eeprom = NoDevice
    /\ stuck = {}

SpecDiscovery == InitDiscovery /\ [][NextDiscovery]_vars

\* Geometries with a negative factor: argparse's type=int takes them, and
\* their product is below the maximum.
SignedGeometries == {<<1, -2>>, <<-2, 1>>}

\* Dump, Flash or Wipe run with such a geometry, on the default address,
\* with a one-byte pattern, an empty input file and a fresh output path.
InitSigned ==
    /\ InitCommon
    /\ responders = {}
    /\ script \in {"Dump", "Flash", "Wipe"}
    /\ pc = "address"
    /\ \E g \in SignedGeometries :
          args = [address |-> DEFAULT_I2C_ADDRESS, bytesPerPage |-> g[1],
                  totalPages |-> g[2], hexString |-> <<0, 0>>,
                  force |-> FALSE]
    /\ fs = [parent |-> "dir", outKind |-> "absent", outData |-> <<>>,
             inKind |-> "file", inData |-> <<>>, mkdirs |-> 0, opens |-> 0]
    /\ fs0 = fs
    /\ eeprom = NoDevice
    /\ stuck = {}

\* The three bus scripts over the geometries above and these.
SpecIntegers ==
    /\ InitDump \/ InitFlash \/ InitWipe \/ InitSigned
    /\ [][NextDump \/ NextFlash \/ DumpAfterFlash \/ NextWipe]_vars

SpecWipe == InitWipe /\ [][NextWipe]_vars

SpecDump == InitDump /\ [][NextDump]_vars

SpecBlank == InitBlank /\ [][NextBlank]_vars

Init == InitBlank \/ InitDump \/ InitFlash \/ InitWipe

Next == NextBlank \/ NextDump \/ NextFlash \/ DumpAfterFlash \/ NextWipe

Spec == Init /\ [][Next]_vars

-----------------------------------------------------------------------------
(* What the bus log and the script's position say about a run *)

\* The write transactions sent so far: address byte, two memory address
\* bytes, data.
WriteOps ==
    SelectSeq(busLog, LAMBDA o : o.op = "write_then_read" /\ o.numrx = 0)

\* The read-back transfers sent so far.
ReadOps ==
    SelectSeq(busLog, LAMBDA o : o.op = "write_then_read" /\ o.numrx > 0)

OpStart(o) == (ByteAt(o.data, 2) * 256) + ByteAt(o.data, 3)

OpLen(o) == Length(o.data) - 3

Covers(o, a) == OpStart(o) <= a /\ a < OpStart(o) + OpLen(o)

\* The byte a write transaction carries for address a.
OpByte(o, a) == ByteAt(o.data, (a - OpStart(o)) + 4)

\* The write transactions lie one after the other from address 0 upwards.
RECURSIVE Ascending(_, _, _)
Ascending(ws, k, from) ==
    IF k > Len(ws) THEN TRUE
    ELSE OpStart(ws[k]) = from /\ Ascending(ws, k + 1, from + OpLen(ws[k]))

\* The run got through argument validation.
Validated ==
    pc \in {"bus", "open", "loop", "verify", "finish", "done"} \/
    (pc = "exit" /\ exc \in {"ProtocolError", "NameError", "ZeroDivisionError"})

\* C1: Wipe pattern tiling.  For every validated Wipe run with
\* bytesPerPage >= 1, totalPages >= 1 and a non-empty pattern of length L
\* (bytesPerPage <= L included), the write loop is not ended by an error of
\* the script itself, and once it has finished every address in
\* [0, totalBytes) was written exactly once, with pattern[a mod L].
C1_WipeTiling ==
    (/\ script = "Wipe" /\ Validated
     /\ args.bytesPerPage >= 1 /\ args.totalPages >= 1
     /\ Len(patternBytes) >= 1)
    => /\ exc \notin {"NameError", "ZeroDivisionError"}
       /\ pc \in {"verify", "finish", "done"} =>
             LET ws == WriteOps
                 L  == Len(patternBytes)
             IN  \A a \in 0..(totalBytes - 1) :
                    /\ Cardinality({k \in 1..Len(ws) : Covers(ws[k], a)}) = 1
                    /\ \A k \in 1..Len(ws) :
                          Covers(ws[k], a) =>
                              OpByte(ws[k], a) = patternBytes[(a % L) + 1]

\* C2: Dump content.  A finished Dump with bytesPerPage >= 1 leaves a file
\* of exactly totalBytes bytes whose byte i is the EEPROM content at
\* address i.
C2_DumpContent ==
    (/\ script = "Dump" /\ pc = "done"
     /\ args.bytesPerPage >= 1 /\ fs.outKind = "file")
    => /\ Length(fs.outData) = totalBytes
       /\ \A i \in 1..totalBytes :
             ByteAt(fs.outData, i) = MemByte(Len(eeprom.writes), i - 1)

\* C3: Flash content.  When Flash completes with bytesPerPage >= 1 the
\* EEPROM holds file[a] at every address below fileSize, the write
\* transactions cover exactly [0, fileSize), each address once, in
\* ascending order, the rest of the EEPROM is untouched, and an empty file
\* causes no write transaction.
C3_FlashContent ==
    (script = "Flash" /\ pc = "done" /\ args.bytesPerPage >= 1)
    => LET ws == WriteOps
           now == Len(eeprom.writes)
       IN  /\ fileSize = Length(fs.inData)
           /\ \A i \in 1..fileSize :
                 MemByte(now, i - 1) = ByteAt(fs.inData, i)
           /\ \A i \in (fileSize + 1)..DeviceSize :
                 MemByte(now, i - 1) = ImageByte(eeprom.img, i - 1)
           /\ Ascending(ws, 1, 0)
           /\ \A a \in 0..(totalBytes - 1) :
                 Cardinality({k \in 1..Len(ws) : Covers(ws[k], a)})
                     = IF a < fileSize THEN 1 ELSE 0
           /\ \A k \in 1..Len(ws) :
                 OpLen(ws[k]) >= 1 /\ OpStart(ws[k]) + OpLen(ws[k]) <= fileSize
           /\ fileSize = 0 => ws = <<>>

\* A Flash of several pages whose last page is partial has completed.
C3_Witness ==
    /\ script = "Flash" /\ pc = "done"
    /\ fileSize > args.bytesPerPage
    /\ fileSize % args.bytesPerPage # 0
    /\ fileSize < totalBytes

\* C4: Flash/Dump round trip.  Flashing a file of exactly totalBytes bytes
\* and then dumping with the same address, bytesPerPage and totalPages
\* gives an output file equal to the input file.
C4_RoundTrip ==
    (/\ script = "Dump" /\ rounds = 2 /\ pc = "done"
     /\ Length(fs.inData) = totalBytes)
    => /\ Length(fs.outData) = Length(fs.inData)
       /\ \A i \in 1..totalBytes :
             ByteAt(fs.outData, i) = ByteAt(fs.inData, i)

\* C5: Blank dump content.  For a non-empty pattern of length L the file
\* Blank_Dump_Creator leaves has exactly totalBytes bytes and byte i is
\* pattern[i mod L], the last repetition truncated.
C5_BlankContent ==
    (/\ script = "Blank" /\ pc = "done"
     /\ Len(patternBytes) >= 1 /\ fs.outKind = "file")
    => /\ Length(fs.outData) = totalBytes
       /\ \A i \in 0..(totalBytes - 1) :
             ByteAt(fs.outData, i + 1)
                 = patternBytes[(i % Len(patternBytes)) + 1]

\* A blank dump whose size is no multiple of the pattern length is done.
C5_Witness ==
    /\ script = "Blank" /\ pc = "done" /\ fs.outKind = "file"
    /\ Len(patternBytes) >= 2
    /\ totalBytes > Len(patternBytes)
    /\ totalBytes % Len(patternBytes) # 0

\* Where a run stands with respect to the address and geometry checks.
AddressRefused == args.address > MAXIMUM_I2C_ADDRESS

GeometryChecked == pc \notin {"address", "geometry"} /\ ~AddressRefused

GeometryRefused ==
    pc = "exit" /\ exc = "ValueError" /\ totalBytes > MAXIMUM_MEMORY_ADDRESS

\* C6: 16-bit geometry check.  In all four scripts a geometry is refused
\* with ValueError exactly when its highest byte address,
\* bytesPerPage * totalPages - 1, does not fit in 16 bits, and a refusal
\* comes before any bus operation and before any change to the file system.
C6_GeometryCheck ==
    GeometryChecked
    => LET highest == (args.bytesPerPage * args.totalPages) - 1
       IN  /\ GeometryRefused <=> highest > MAXIMUM_MEMORY_ADDRESS
           /\ GeometryRefused => busLog = <<>> /\ fs = fs0

\* Where a run stands with respect to the output path checks.
BeforeOutputChecks == pc \in {"address", "geometry", "hex", "parent"}

OutputAccepted == pc \in {"bus", "open", "loop", "done"}

RefusedOrNotYet ==
    /\ ~OutputAccepted
    /\ pc = "exit" => exc \in {"ValueError", "SystemExit"}

C8_FlashInputValidation ==
    (/\ script = "Flash"
     /\ \/ fs.inKind # "file"
        \/ Length(fs.inData) > args.bytesPerPage * args.totalPages)
    => /\ busLog = <<>>
       /\ eeprom.writes = <<>>
       /\ pc \in {"address", "geometry", "input", "size", "exit"}
       /\ pc = "exit" => exc \in {"ValueError", "SystemExit", "IndexError"}

\* Flash has refused a file larger than the EEPROM.
C8_Witness ==
    /\ script = "Flash" /\ pc = "exit" /\ exc = "IndexError"
    /\ Length(fs.inData) > totalBytes /\ totalBytes >= 1
    /\ busLog = <<>>

\* The pages of the EEPROM that do not hold the pattern continued
\* cyclically from address 0.
PageReadsBack(k) ==
    LET L == Len(patternBytes)
    IN  \A j \in 0..(args.bytesPerPage - 1) :
           LET a == (k * args.bytesPerPage) + j
           IN  MemByte(Len(eeprom.writes), a) = patternBytes[(a % L) + 1]

BadPages == {k \in 0..(args.totalPages - 1) : ~PageReadsBack(k)}

FirstBadPage == CHOOSE k \in BadPages : \A m \in BadPages : k <= m

\* C9: Wipe verification verdict.  In a finished Wipe run with
\* bytesPerPage >= 1, "EEPROM wiped successfully" is printed exactly when
\* every page of the EEPROM reads back as the pattern continued cyclically
\* through that page, and then every page was read; otherwise reading
\* stopped with the first page that differs and "Verification failed" is
\* printed; either way the run ends with stop and hw_reset.
C9_WipeVerdict ==
    (script = "Wipe" /\ pc = "done" /\ args.bytesPerPage >= 1)
    => /\ Len(WriteOps) = args.totalPages
       /\ IF BadPages = {}
          THEN /\ printed = <<"EEPROM wiped successfully">>
               /\ Len(ReadOps) = args.totalPages
          ELSE /\ printed = <<"Verification failed">>
               /\ Len(ReadOps) = FirstBadPage + 1
       /\ Len(busLog) >= 2
       /\ busLog[Len(busLog) - 1].op = "stop"
       /\ busLog[Len(busLog)].op = "hw_reset"

\* A verification has failed at a page that is not the last one.
C9_Witness ==
    /\ script = "Wipe" /\ pc = "done"
    /\ printed = <<"Verification failed">>
    /\ Len(ReadOps) >= 1
    /\ Len(ReadOps) < args.totalPages

Probes == SelectSeq(busLog, LAMBDA o : o.op = "write_then_read")

ProbedAddress(o) == ByteAt(o.data, 1)

\* C11: Discovery scan coverage.  With -s the scan probes the addresses
\* 1..255 once each in ascending order and never 0, no probe's
\* ProtocolError ends the run, and at every point of the scan
\* foundAddresses is the ascending list of the probed addresses that
\* acknowledged and the progress counter is the number of probes; after the
\* scan that number is 255.
C11_ScanCoverage ==
    (script = "Discovery" /\ args.search
     /\ pc \in {"scan", "sort", "memory", "done"})
    => LET n  == scanAddress - 1
           ps == Probes
       IN  /\ exc = "none"
           /\ Len(ps) = n
           /\ \A i \in 1..n :
                 /\ Length(ps[i].data) = 1
                 /\ ProbedAddress(ps[i]) = i
           /\ scanProgress = n
           /\ \A i \in 1..Len(foundAddresses), j \in 1..Len(foundAddresses) :
                 i < j => foundAddresses[i] < foundAddresses[j]
           /\ {foundAddresses[i] : i \in 1..Len(foundAddresses)}
                 = {a \in 1..n : ProbeOutcome(a) = "ok"}
           /\ pc # "scan" => n = SCAN_MAXIMUM_I2C_ADDRESS

\* A scan has ended on a bus where the general call address and three
\* probed addresses acknowledge.
C11_Witness ==
    /\ script = "Discovery" /\ pc = "done"
    /\ 0 \in responders
    /\ Len(foundAddresses) = 3
    /\ scanProgress = SCAN_MAXIMUM_I2C_ADDRESS

\* The places an address is reported in: the rows it is the read or write
\* address of, and its entries in the unknown list.
RowsNaming(a) ==
    {i \in 1..Len(EEPROM_Addresses) :
        EEPROM_Addresses[i][2] = a \/ EEPROM_Addresses[i][3] = a}

UnknownEntries(a) ==
    {i \in 1..Len(unknownAddresses) : unknownAddresses[i] = a}

\* C12: Discovery classification.  After the sorting loop every found
\* address is reported in exactly one place, as the read or write address
\* of one row or once in the unknown list, and nothing else is reported;
\* the row [i, 2i+1, 2i] is present exactly when both 2i and 2i+1 were
\* found; and no row appears twice.
C12_Classification ==
    (script = "Discovery" /\ args.search /\ pc \in {"memory", "done"})
    => /\ \A a \in 0..SCAN_MAXIMUM_I2C_ADDRESS :
             Cardinality(RowsNaming(a)) + Cardinality(UnknownEntries(a))
                 = IF In(a, foundAddresses) THEN 1 ELSE 0
       /\ \A i \in 0..(SCAN_MAXIMUM_I2C_ADDRESS \div 2) :
             In(<<i, (2 * i) + 1, 2 * i>>, EEPROM_Addresses)
                 <=> In(2 * i, foundAddresses) /\ In((2 * i) + 1, foundAddresses)
       /\ \A r \in 1..Len(EEPROM_Addresses) :
             /\ EEPROM_Addresses[r][2] = (2 * EEPROM_Addresses[r][1]) + 1
             /\ EEPROM_Addresses[r][3] = 2 * EEPROM_Addresses[r][1]
             /\ \A q \in 1..Len(EEPROM_Addresses) :
                   EEPROM_Addresses[q] = EEPROM_Addresses[r] => q = r

\* A scan has reported one EEPROM row and addresses without a partner.
C12_Witness ==
    /\ script = "Discovery" /\ pc = "done"
    /\ Len(EEPROM_Addresses) = 1
    /\ Len(unknownAddresses) >= 2
    /\ In(1, unknownAddresses)

\* C13: validate-then-act ordering.  In Dump, Flash and Wipe a run that
\* ends abnormally because of its command-line values, that is with any
\* exception other than a bus transfer's, ends before the bus object is
\* created: no bus call was made and the EEPROM was not written.
C13_ValidateThenAct ==
    (/\ script \in {"Dump", "Flash", "Wipe"}
     /\ pc = "exit" /\ exc # "ProtocolError")
    => busLog = <<>> /\ eeprom.writes = <<>>

\* The set-address transfers sent so far (Dump, Wipe's verify loop).
SetOps == SelectSeq(busLog, LAMBDA o : o.op = "transfer")

\* The pages a loop has completed when it stands at byteAddress.
PagesDone == byteAddress \div args.bytesPerPage

\* C14: no retry or recovery.  In Dump, Flash and Wipe, once a bus
\* transfer has raised, the run is over: the failed transfer is the last
\* bus call (no stop, power-off or hw_reset follows), the transfers sent
\* are one per completed page plus the failed one, so no page was re-sent
\* and no later page attempted, and Dump's output file holds exactly the
\* pages read before the failure.
C14_NoRetry ==
    (/\ script \in {"Dump", "Flash", "Wipe"}
     /\ exc = "ProtocolError" /\ args.bytesPerPage >= 1)
    => LET ws == WriteOps
           ss == SetOps
       IN  /\ pc = "exit"
           /\ busLog[Len(busLog)].op \in {"transfer", "write_then_read"}
           /\ \A i \in 1..Len(busLog) :
                 busLog[i].op \notin {"power_off", "hw_reset"}
           /\ \A i \in 1..(Len(ws) - 1) : OpStart(ws[i]) < OpStart(ws[i + 1])
           /\ script = "Flash" => Len(ws) = PagesDone + 1 /\ ss = <<>>
           /\ script = "Dump" => ws = <<>> /\ Len(ss) = PagesDone + 1
           /\ (script = "Dump" /\ fs.outKind = "file")
                 => /\ Length(fs.outData) = byteAddress
                    /\ \A k \in 0..(PagesDone - 1), j \in 1..args.bytesPerPage :
                          ByteAt(fs.outData, (k * args.bytesPerPage) + j)
                              = MemByte(Len(eeprom.writes),
                                        (OpStart(ss[k + 1]) + j - 1)
                                            % DeviceSize)
           /\ script = "Wipe"
                 => IF ss = <<>>
                    THEN Len(ws) = PagesDone + 1
                    ELSE Len(ws) = args.totalPages /\ Len(ss) = PagesDone + 1

\* A Dump has been ended by a bus error after it had read pages.
C14_Witness ==
    /\ script = "Dump" /\ pc = "exit" /\ exc = "ProtocolError"
    /\ byteAddress >= 2 * args.bytesPerPage
    /\ fs.outKind = "file"
    /\ Length(fs.outData) = byteAddress
    /\ byteAddress < totalBytes

\* C15: Wipe page construction for bytesPerPage > L >= 1.  The k-th write
\* transaction (from 0) starts at k * bytesPerPage, carries exactly
\* bytesPerPage bytes, and its byte j is pattern[(k*bytesPerPage + j) mod L];
\* at the start of page k wiperStringStart is congruent to k*bytesPerPage
\* modulo L.
C15_PageConstruction ==
    (/\ script = "Wipe" /\ Validated
     /\ Len(patternBytes) >= 1 /\ args.bytesPerPage > Len(patternBytes))
    => LET ws == WriteOps
           L  == Len(patternBytes)
       IN  /\ \A k \in 0..(Len(ws) - 1) :
                 /\ OpStart(ws[k + 1]) = k * args.bytesPerPage
                 /\ OpLen(ws[k + 1]) = args.bytesPerPage
                 /\ \A j \in 0..(args.bytesPerPage - 1) :
                       ByteAt(ws[k + 1].data, j + 4)
                           = patternBytes[(((k * args.bytesPerPage) + j) % L) + 1]
           /\ pc = "loop"
                 => /\ Len(ws) = PagesDone
                    /\ wiperStringStart % L = (PagesDone * args.bytesPerPage) % L

\* A write phase of three or more pages that the pattern does not divide
\* has been sent.
C15_Witness ==
    /\ script = "Wipe" /\ pc = "verify"
    /\ Len(patternBytes) >= 2
    /\ args.bytesPerPage > Len(patternBytes)
    /\ args.bytesPerPage % Len(patternBytes) # 0
    /\ args.totalPages >= 3
    /\ Len(WriteOps) = args.totalPages

\* C16: Wipe tracker range.  In the write loop and in the verify loop,
\* after every page wiperStringStart is a valid index into the pattern:
\* 0 <= wiperStringStart < len(pattern).
C16_TrackerRange ==
    (script = "Wipe" /\ Validated /\ Len(patternBytes) >= 1)
    => 0 <= wiperStringStart /\ wiperStringStart < Len(patternBytes)

\* C17: Wipe write/verify lockstep.  For every page the verify loop has
\* reached, the two address bytes it set are those of the write
\* transaction for that page, and the expected bytes verifyData built for
\* the page it is at are the data bytes that transaction carried.
C17_Lockstep ==
    (script = "Wipe" /\ SetOps # <<>>)
    => LET ws == WriteOps
           ss == SetOps
           k  == Len(ss)
       IN  /\ k <= Len(ws)
           /\ \A i \in 1..k :
                 /\ ByteAt(ss[i].data, 2) = ByteAt(ws[i].data, 2)
                 /\ ByteAt(ss[i].data, 3) = ByteAt(ws[i].data, 3)
           /\ verifyData # Undefined
           /\ Len(verifyData) = OpLen(ws[k])
           /\ \A j \in 1..Len(verifyData) :
                 verifyData[j] = ByteAt(ws[k].data, j + 3)

\* The verify loop has built its third page of a pattern that the page
\* size does not divide.
C17_Witness ==
    /\ script = "Wipe" /\ Len(SetOps) >= 3
    /\ Len(patternBytes) >= 2
    /\ args.bytesPerPage % Len(patternBytes) # 0
    /\ verifyData # Undefined

\* C18: page-aligned chunks.  In Flash and Wipe with bytesPerPage >= 1
\* every write transaction starts at a multiple of bytesPerPage and carries
\* at least one and at most bytesPerPage data bytes, so it ends in the page
\* it starts in; every transaction but the last carries exactly
\* bytesPerPage bytes; and in Flash each carries the smaller of
\* bytesPerPage and fileSize minus the bytes already sent.
C18_PageAligned ==
    (script \in {"Flash", "Wipe"} /\ args.bytesPerPage >= 1)
    => LET ws  == WriteOps
           bpp == args.bytesPerPage
       IN  \A i \in 1..Len(ws) :
              /\ OpStart(ws[i]) % bpp = 0
              /\ OpLen(ws[i]) >= 1 /\ OpLen(ws[i]) <= bpp
              /\ OpStart(ws[i]) \div bpp
                    = (OpStart(ws[i]) + OpLen(ws[i]) - 1) \div bpp
              /\ i < Len(ws) => OpLen(ws[i]) = bpp
              /\ script = "Flash"
                    => OpLen(ws[i]) = Min(bpp, fileSize - ((i - 1) * bpp))

\* A Flash has sent full pages and a shorter last one.
C18_Witness ==
    /\ script = "Flash" /\ pc = "done"
    /\ Len(WriteOps) >= 2
    /\ OpLen(WriteOps[Len(WriteOps)]) < args.bytesPerPage
    /\ OpLen(WriteOps[1]) = args.bytesPerPage

\* The value byteAddress runs up to in the loop that sends or reads pages.
LoopBound == IF script = "Flash" THEN fileSize ELSE totalBytes

\* C19: bus-loop progress.  For every geometry that passes validation in
\* Dump, Flash and Wipe, whatever the signs of bytesPerPage and totalPages,
\* while the page loop runs 0 <= byteAddress <= the loop bound, every
\* iteration strictly increases byteAddress, and the loop is left for the
\* next stage of the script with byteAddress equal to the bound.
C19_LoopProgress ==
    [][(script \in {"Dump", "Flash", "Wipe"} /\ pc = "loop")
          => /\ 0 <= byteAddress /\ byteAddress <= LoopBound
             /\ pc' = "loop" => byteAddress' > byteAddress
             /\ pc' \in {"done", "verify"} => byteAddress = LoopBound]_vars

====
